---- MODULE Spec2Model ----
(***************************************************************************)
(* Parking KM0 (src/app.py): cession / reservation lifecycle.              *)
(*                                                                         *)
(* The persisted tables (slots, pre_reservas, ev_solicitudes) are shared   *)
(* state; every Streamlit script run of a view is a process that reads     *)
(* them with GET requests and writes them with POST/PATCH requests.        *)
(* Dates are day numbers (day 0 is a Monday); the time of day is in        *)
(* minutes since midnight.                                                 *)
(***************************************************************************)
EXTENDS Integers, Sequences, FiniteSets, TLC

\* ------------------------------------------------------------------ bounds
MaxDay == 1
MaxRows == 4
MaxEvRows == 1
RowsCarrera == 2
MaxMinutos == 17

\* ------------------------------------------------------------- constants
\* time(20, 0), in minutes
limite == 1200

Null == "null"
Users == {"u1", "u2"}
Plazas == {1}
Franjas == <<"M", "T">>
FranjaSet == {"M", "T"}
Dates == 0..MaxDay
\* 19:59, 20:00, 20:01
Horas == {1199, 1200, 1201}
\* the clock values and the dates the policy functions are consulted with
HorasPolicy == {0, 719, 1199, 1200, 1201, 1439}
PolicyDates == 0..(MaxDay + 3)
Acciones == {"reservar", "cancelar"}
\* last_auto_draw_date = None: no date
SinFecha == -1
\* MAX_INTENTOS, BLOQUEO_MINUTOS of login
MAX_INTENTOS == 4
BLOQUEO_MINUTOS == 15
\* blocked_until = None
SinBloqueo == -1
\* login_security.get(email, {"attempts": 0, "blocked_until": None})
SecInicial == [attempts |-> 0, blocked_until |-> SinBloqueo]
Emails == {"a@km0", "b@km0"}
\* the outcome of the POST to the authentication server: status 200, another
\* status, or an exception of the connection
Respuestas == {"ok", "rechazo", "excepcion"}
\* the browser sessions (st.session_state is per session)
Sesiones == {"s1", "s2"}
\* the dates main() runs the lottery for: tomorrow
FechasSorteo == 1..(MaxDay + 1)

VARIABLES
    hoy,             \* date.today()
    ahora,           \* datetime.now().time(), minutes
    slots,           \* table slots: <<fecha, plaza_id, franja>> -> row
    pre_reservas,    \* table pre_reservas: sequence of rows, in insertion order
    ev_solicitudes,  \* table ev_solicitudes: <<fecha, usuario_id>> -> row
    sup,             \* per suplente: the script run of view_suplente
    tit,             \* per plaza: the script run of view_titular
    consulta,        \* the last call recorded (function, inputs, result)
    last_auto_draw_date,  \* per session: st.session_state.last_auto_draw_date
    llamadas_auto,   \* per date: the calls of the lottery RPC made by main()
    login_security,  \* st.session_state.login_security of one session, per email
    ahora_utc,       \* datetime.utcnow(), minutes
    auth,            \* per session: st.session_state.auth
    profile          \* per session: st.session_state.profile

vars == <<hoy, ahora, slots, pre_reservas, ev_solicitudes, sup, tit, consulta,
          last_auto_draw_date, llamadas_auto, auth, profile, login_security, ahora_utc>>

\* ---------------------------------------------------------------- helpers
Max(S) == CHOOSE x \in S : \A y \in S : y <= x
Min(S) == CHOOSE x \in S : \A y \in S : x <= y

SlotKeys == Dates \X Plazas \X FranjaSet

\* A slot row that was never written: owner_usa defaults to true.
SlotDefault == [owner_usa |-> TRUE, reservado_por |-> Null, es_sorteo |-> FALSE,
                slot_bloqueado_para |-> Null]

EvNone == [estado |-> "NONE", pref_turno |-> Null]

\* ----------------------------------------------------------------- policy
se_puede_modificar_slot_le(fecha_slot, accion) ==
    IF fecha_slot = hoy /\ accion = "reservar" THEN TRUE
    ELSE IF fecha_slot = hoy /\ accion = "cancelar" THEN FALSE
    ELSE IF fecha_slot = hoy + 1 THEN ahora <= limite
    ELSE TRUE

se_puede_modificar_slot(fecha_slot, accion) ==
    IF fecha_slot = hoy /\ accion = "reservar" THEN TRUE
    ELSE IF fecha_slot = hoy /\ accion = "cancelar" THEN FALSE
    ELSE IF fecha_slot = hoy + 1 THEN ahora < limite
    ELSE TRUE

se_puede_modificar_cesion_gt(fecha_slot) ==
    IF fecha_slot = hoy THEN FALSE
    ELSE IF fecha_slot = hoy + 1 /\ ahora > limite THEN FALSE
    ELSE TRUE

se_puede_modificar_cesion(fecha_slot) ==
    IF fecha_slot = hoy THEN FALSE
    ELSE IF fecha_slot = hoy + 1 /\ ahora >= limite THEN FALSE
    ELSE TRUE

ConsultaNone == [fn |-> "none", fecha |-> 0, accion |-> Null, res |-> FALSE]

\* A call of se_puede_modificar_slot: it reads the clock and changes nothing.
ConsultaSlot(d, a) ==
    /\ consulta' = [fn |-> "slot", fecha |-> d, accion |-> a,
                    res |-> se_puede_modificar_slot(d, a)]
    /\ UNCHANGED <<hoy, ahora, slots, pre_reservas, ev_solicitudes, sup, tit,
                 last_auto_draw_date, llamadas_auto, auth, profile,
                 login_security, ahora_utc>>

\* A call of se_puede_modificar_cesion.
ConsultaCesion(d) ==
    /\ consulta' = [fn |-> "cesion", fecha |-> d, accion |-> Null,
                    res |-> se_puede_modificar_cesion(d)]
    /\ UNCHANGED <<hoy, ahora, slots, pre_reservas, ev_solicitudes, sup, tit,
                 last_auto_draw_date, llamadas_auto, auth, profile,
                 login_security, ahora_utc>>

\* ------------------------------------------------------------------ clock
\* Time passes within the day: 19:59 -> 20:00 -> 20:01.
TickMinuto ==
    /\ ahora < Max(Horas)
    /\ ahora' = Min({h \in Horas : h > ahora})
    /\ UNCHANGED <<hoy, slots, pre_reservas, ev_solicitudes, sup, tit, consulta,
                 last_auto_draw_date, llamadas_auto, auth, profile,
                 login_security, ahora_utc>>

\* Midnight: 20:01 -> 19:59 of the next day.
TickDia ==
    /\ ahora = Max(Horas)
    /\ hoy < MaxDay
    /\ hoy' = hoy + 1
    /\ ahora' = Min(Horas)
    /\ UNCHANGED <<slots, pre_reservas, ev_solicitudes, sup, tit, consulta,
                 last_auto_draw_date, llamadas_auto, auth, profile,
                 login_security, ahora_utc>>

\* ------------------------------------------------ the days a view shows
weekday(d) == d % 7

\* "Semana inteligente": Monday..Thursday the rest of this week, Friday today
\* and next week, at the weekend next week; cut to the dates of the model.
dias_semana(h) ==
    LET lunes_actual == h - weekday(h)
        semana_actual == {lunes_actual + i : i \in 0..4}
        semana_next == {lunes_actual + 7 + i : i \in 0..4}
        dias == IF weekday(h) <= 3 THEN {d \in semana_actual : d >= h}
                ELSE IF weekday(h) = 4 THEN {h} \cup semana_next
                ELSE semana_next
    IN  dias \cap Dates

\* ------------------------------------------------- view_suplente: reads
\* libres[(f, fr)]: slots of the day and period that are ceded and unreserved
libres(sl, d, fr) ==
    Cardinality({p \in Plazas : /\ sl[<<d, p, fr>>].owner_usa = FALSE
                                /\ sl[<<d, p, fr>>].reservado_por = Null})

\* (d, fr) in reservas_user_sem
reservas_user_sem(sl, u, d, fr) ==
    \E p \in Plazas : sl[<<d, p, fr>>].reservado_por = u

\* pre_sem.get((d, fr)): the state of the user's last non-cancelled row
pre_sem(pre, u, d, fr) ==
    LET idx == {i \in 1..Len(pre) : /\ pre[i].usuario_id = u
                                    /\ pre[i].fecha = d
                                    /\ pre[i].franja = fr
                                    /\ pre[i].estado # "CANCELADO"}
    IN  IF idx = {} THEN Null ELSE pre[Max(idx)].estado

\* ev_sol.get(d): the user's EV request of the day unless it is cancelled
ev_sol(ev, u, d) ==
    IF ev[<<d, u>>].estado \in {"NONE", "CANCELADO"} THEN Null
    ELSE ev[<<d, u>>].pref_turno

ev_prev_m(ev, u, d) == ev_sol(ev, u, d) \in {"M", "ANY"}
ev_prev_t(ev, u, d) == ev_sol(ev, u, d) \in {"T", "ANY"}

default_full(db, u, d) ==
    /\ pre_sem(db.pre, u, d, "M") # Null
    /\ pre_sem(db.pre, u, d, "T") # Null
    /\ pre_sem(db.pre, u, d, "M") # "RECHAZADO"
    /\ pre_sem(db.pre, u, d, "T") # "RECHAZADO"
    /\ ~reservas_user_sem(db.slots, u, d, "M")
    /\ ~reservas_user_sem(db.slots, u, d, "T")

default_marc(db, u, d, fr) == pre_sem(db.pre, u, d, fr) \in {"PENDIENTE", "ASIGNADO"}

\* The widget values of a day: the user's on the day they edit (in.fd), the
\* defaults computed from the rows just read on every other day.
widget(db, u, d, in) ==
    IF d = in.fd THEN in
    ELSE [fd |-> in.fd,
          full |-> default_full(db, u, d),
          M |-> default_marc(db, u, d, "M"),
          T |-> default_marc(db, u, d, "T"),
          ev_m |-> ev_prev_m(db.ev, u, d),
          ev_t |-> ev_prev_t(db.ev, u, d)]

\* An entry of cambios with esta_pre and esta_slot of lines 2334-2335
Entry(d, fr, accion, db, u) ==
    [d |-> d, fr |-> fr, accion |-> accion,
     esta_pre |-> pre_sem(db.pre, u, d, fr) # Null,
     esta_slot |-> reservas_user_sem(db.slots, u, d, fr)]

EntryFull(d, accion) ==
    [d |-> d, fr |-> "FULL", accion |-> accion, esta_pre |-> FALSE, esta_slot |-> FALSE]

\* cambios[(d, fr)] of one period
cambios_franja(db, u, d, fr, w) ==
    LET editable == se_puede_modificar_slot(d, "reservar")
        estado_pre == pre_sem(db.pre, u, d, fr)
        marc == IF editable THEN w[fr] ELSE estado_pre \in {"PENDIENTE", "ASIGNADO"}
    IN  IF reservas_user_sem(db.slots, u, d, fr) THEN "NOACCION"
        ELSE IF d = hoy /\ libres(db.slots, d, fr) = 0 THEN "NOACCION"
        ELSE IF estado_pre = "RECHAZADO" THEN "NOACCION"
        ELSE IF marc THEN "SOLICITAR" ELSE "NOACCION"

\* The entries of cambios of one day, in insertion order: FULL, M, T.
cambios_dia(db, u, d, w) ==
    LET editable == se_puede_modificar_slot(d, "reservar")
        adjud_full == /\ reservas_user_sem(db.slots, u, d, "M")
                      /\ reservas_user_sem(db.slots, u, d, "T")
        full_checked == IF editable THEN w.full ELSE default_full(db, u, d)
    IN  IF adjud_full THEN <<EntryFull(d, "NOACCION")>>
        ELSE IF full_checked THEN <<EntryFull(d, "SOLICITAR")>>
        ELSE <<EntryFull(d, "NOFULL"),
               Entry(d, "M", cambios_franja(db, u, d, "M", w), db, u),
               Entry(d, "T", cambios_franja(db, u, d, "T", w), db, u)>>

\* a preference that tests the morning box first
pref_de_manana(ev_m, ev_t) ==
    IF ev_m THEN "M"
    ELSE IF ev_t THEN "T"
    ELSE IF ev_m /\ ev_t THEN "ANY"
    ELSE Null

\* pref of lines 2470-2477
pref_de(ev_m, ev_t) ==
    IF ev_m /\ ev_t THEN "ANY"
    ELSE IF ev_m THEN "M"
    ELSE IF ev_t THEN "T"
    ELSE Null

\* st.session_state.get("ev_m_<d>", False): the EV checkboxes of a day are
\* rendered only when the day is editable; an unrendered widget has no state.
ev_dia(db, u, d, w) ==
    LET editable == se_puede_modificar_slot(d, "reservar")
    IN  [d |-> d,
         pref |-> IF editable THEN pref_de(w.ev_m, w.ev_t) ELSE pref_de(FALSE, FALSE)]

RECURSIVE cambios(_, _, _, _)
cambios(db, u, dias, in) ==
    IF dias = {} THEN <<>>
    ELSE LET d == Min(dias)
         IN  cambios_dia(db, u, d, widget(db, u, d, in)) \o cambios(db, u, dias \ {d}, in)

RECURSIVE ev_cambios(_, _, _, _)
ev_cambios(db, u, dias, in) ==
    IF dias = {} THEN <<>>
    ELSE LET d == Min(dias)
         IN  <<ev_dia(db, u, d, widget(db, u, d, in))>> \o ev_cambios(db, u, dias \ {d}, in)

\* ------------------------------------------------ view_suplente: writes
Row(u, d, fr, pack_id) ==
    [usuario_id |-> u, fecha |-> d, franja |-> fr, estado |-> "PENDIENTE",
     pack_id |-> pack_id]

\* POST pre_reservas: the two rows of a full-day pack, with a fresh pack_id
insert_pack(db, u, d) ==
    LET pack_id == Len(db.pre) + 1
    IN  [db EXCEPT !.pre = db.pre \o <<Row(u, d, "M", pack_id), Row(u, d, "T", pack_id)>>]

\* POST pre_reservas: one PENDIENTE row, no pack
insert_single(db, u, d, fr) ==
    [db EXCEPT !.pre = Append(db.pre, Row(u, d, fr, 0))]

\* PATCH pre_reservas where usuario_id, fecha, franja and estado in `from`
patch_pre(db, u, d, fr, from, to) ==
    [db EXCEPT !.pre =
        [i \in 1..Len(db.pre) |->
            IF /\ db.pre[i].usuario_id = u
               /\ db.pre[i].fecha = d
               /\ db.pre[i].franja = fr
               /\ db.pre[i].estado \in from
            THEN [db.pre[i] EXCEPT !.estado = to]
            ELSE db.pre[i]]]

\* a cancellation that writes the state of a lost lottery
rechazar_pre(db, u, d, fr) ==
    patch_pre(db, u, d, fr, {"PENDIENTE", "ASIGNADO"}, "RECHAZADO")

\* a cancellation of one row only: the first that matches
cancelar_una(db, u, d, fr) ==
    LET idx == {i \in 1..Len(db.pre) : /\ db.pre[i].usuario_id = u
                                        /\ db.pre[i].fecha = d
                                        /\ db.pre[i].franja = fr
                                        /\ db.pre[i].estado \in {"PENDIENTE", "ASIGNADO"}}
    IN  IF idx = {} THEN db
        ELSE [db EXCEPT !.pre[Min(idx)].estado = "CANCELADO"]

cancel_pre(db, u, d, fr) ==
    patch_pre(db, u, d, fr, {"PENDIENTE", "ASIGNADO"}, "CANCELADO")

\* GET slots where fecha, franja, owner_usa = false, reservado_por is null,
\* order plaza_id asc, limit 1
libres_hoy(sl, d, fr) ==
    LET free == {p \in Plazas : /\ sl[<<d, p, fr>>].owner_usa = FALSE
                                /\ sl[<<d, p, fr>>].reservado_por = Null}
    IN  IF free = {} THEN {} ELSE {Min(free)}

\* POST slots?on_conflict=fecha,plaza_id,franja with merge-duplicates: the
\* columns of the payload overwrite the row, whatever it holds.
reservar_hoy(db, u, d, fr, plaza_id) ==
    [db EXCEPT !.slots[<<d, plaza_id, fr>>] =
        [@ EXCEPT !.owner_usa = FALSE, !.reservado_por = u]]

\* ev_upsert_solicitud: one row per (fecha, usuario_id), overwritten
ev_upsert_solicitud(db, d, u, pref_turno) ==
    [db EXCEPT !.ev[<<d, u>>] = [estado |-> "PENDIENTE", pref_turno |-> pref_turno]]

\* ev_cancelar_solicitud: PATCH where estado in (PENDIENTE, ASIGNADO,
\* RECHAZADO, NO_DISPONIBLE)
ev_cancelar_solicitud(db, d, u) ==
    IF db.ev[<<d, u>>].estado \in {"PENDIENTE", "ASIGNADO", "RECHAZADO", "NO_DISPONIBLE"}
    THEN [db EXCEPT !.ev[<<d, u>>].estado = "CANCELADO"]
    ELSE db

\* 7.B: the EV requests of every day shown
RECURSIVE guardar_ev(_, _, _)
guardar_ev(u, evtodo, db) ==
    IF evtodo = <<>> THEN db
    ELSE LET e == Head(evtodo)
         IN  guardar_ev(u, Tail(evtodo),
                        IF e.pref # Null THEN ev_upsert_solicitud(db, e.d, u, e.pref)
                        ELSE ev_cancelar_solicitud(db, e.d, u))

SupIdle == [pc |-> "idle"]

\* The loop over cambios from its first entry left, up to the next direct
\* reservation that found a free slot (the run then stands between the GET
\* of the free slot and the POST that takes it) or to the end of the save.
RECURSIVE guardar_cambios(_, _, _)
guardar_cambios(u, s, db) ==
    IF s.todo = <<>>
    THEN [sess |-> SupIdle, db |-> guardar_ev(u, s.evtodo, db)]
    ELSE
        LET e == Head(s.todo)
            rest == [s EXCEPT !.todo = Tail(s.todo)]
        IN  IF e.fr = "FULL"
            THEN guardar_cambios(u, rest,
                    IF e.accion = "SOLICITAR" THEN insert_pack(db, u, e.d) ELSE db)
            ELSE IF e.accion = "SOLICITAR"
            THEN IF e.d = s.hoy
                 THEN IF ~e.esta_slot /\ libres_hoy(db.slots, e.d, e.fr) # {}
                      THEN [sess |-> [pc |-> "post", hoy |-> s.hoy, todo |-> s.todo,
                                      evtodo |-> s.evtodo,
                                      plaza_id |-> Min(libres_hoy(db.slots, e.d, e.fr))],
                            db |-> db]
                      ELSE guardar_cambios(u, rest, db)
                 ELSE guardar_cambios(u, rest,
                        IF ~e.esta_pre /\ ~e.esta_slot
                        THEN insert_single(db, u, e.d, e.fr) ELSE db)
            ELSE guardar_cambios(u, rest,
                    IF e.esta_pre THEN cancel_pre(db, u, e.d, e.fr) ELSE db)

Db == [slots |-> slots, pre |-> pre_reservas, ev |-> ev_solicitudes]

EvRows(ev) == Cardinality({k \in DOMAIN ev : ev[k].estado # "NONE"})

Commit(u, r) ==
    /\ Len(r.db.pre) <= MaxRows
    /\ EvRows(r.db.ev) <= MaxEvRows
    /\ slots' = r.db.slots
    /\ pre_reservas' = r.db.pre
    /\ ev_solicitudes' = r.db.ev
    /\ sup' = [sup EXCEPT ![u] = r.sess]
    /\ UNCHANGED <<hoy, ahora, tit, consulta,
                 last_auto_draw_date, llamadas_auto, auth, profile,
                 login_security, ahora_utc>>

Inputs(h) ==
    [fd : dias_semana(h), full : BOOLEAN, M : BOOLEAN, T : BOOLEAN,
     ev_m : BOOLEAN, ev_t : BOOLEAN]

\* A script run of view_suplente with "Guardar cambios" clicked: the reads,
\* the widgets, and the save up to its first direct reservation.
SuplenteGuardar(u, in) ==
    /\ sup[u].pc = "idle"
    /\ dias_semana(hoy) # {}
    /\ Commit(u, guardar_cambios(u,
                [hoy |-> hoy,
                 todo |-> cambios(Db, u, dias_semana(hoy), in),
                 evtodo |-> ev_cambios(Db, u, dias_semana(hoy), in)],
                Db))

\* The POST that takes the free slot read before (ok: its status is below
\* 400), the PATCH of the request of the period, and the rest of the save.
SuplenteReservar(u, ok) ==
    /\ sup[u].pc = "post"
    /\ LET s == sup[u]
           e == Head(s.todo)
           db1 == IF ok THEN reservar_hoy(Db, u, e.d, e.fr, s.plaza_id) ELSE Db
           db2 == IF e.esta_pre
                  THEN patch_pre(db1, u, e.d, e.fr, {"PENDIENTE"}, "ASIGNADO")
                  ELSE db1
       IN  Commit(u, guardar_cambios(u,
                [hoy |-> s.hoy, todo |-> Tail(s.todo), evtodo |-> s.evtodo], db2))
\* --------------------------------------------------------- view_titular
cedida(sl, p, d, fr) == ~sl[<<d, p, fr>>].owner_usa
reservado(sl, p, d, fr) == sl[<<d, p, fr>>].reservado_por

\* The widget values of a day of the titular: the user's on the day they
\* edit, the defaults (the state just read) on every other day.
widget_titular(sl, p, d, in) ==
    IF d = in.fd THEN in
    ELSE [fd |-> in.fd,
          full |-> cedida(sl, p, d, "M") /\ cedida(sl, p, d, "T"),
          M |-> cedida(sl, p, d, "M"),
          T |-> cedida(sl, p, d, "T")]

\* cedencias[(d, fr)] of lines 1493-1580
cedencias_franja(sl, p, d, fr, w) ==
    LET editable == se_puede_modificar_cesion(d)
    IN  IF ~editable
        THEN IF reservado(sl, p, d, fr) # Null THEN TRUE ELSE cedida(sl, p, d, fr)
        ELSE IF reservado(sl, p, d, "M") = Null /\ reservado(sl, p, d, "T") = Null
        THEN IF w.full THEN TRUE ELSE w[fr]
        ELSE IF reservado(sl, p, d, fr) # Null THEN TRUE ELSE w[fr]

cedencias(sl, p, dias, in) ==
    [k \in dias \X FranjaSet |->
        cedencias_franja(sl, p, k[1], k[2], widget_titular(sl, p, k[1], in))]

TitIdle == [pc |-> "idle"]

InputsTitular(h) ==
    [fd : dias_semana(h), full : BOOLEAN, M : BOOLEAN, T : BOOLEAN]

\* A script run of view_titular with "Guardar cambios" clicked, up to the
\* end of its reads: the slots of the plaza and the widgets give cedencias.
TitularLeer(p, in) ==
    /\ tit[p].pc = "idle"
    /\ dias_semana(hoy) # {}
    /\ tit' = [tit EXCEPT ![p] =
                [pc |-> "guardar", cedencias |-> cedencias(slots, p, dias_semana(hoy), in)]]
    /\ UNCHANGED <<hoy, ahora, slots, pre_reservas, ev_solicitudes, sup, consulta,
                 last_auto_draw_date, llamadas_auto, auth, profile,
                 login_security, ahora_utc>>

\* "Guardar cambios": every (d, fr) of cedencias whose day may be modified;
\* the upsert carries owner_usa only and leaves reservado_por as it is.
guardar_cesiones(sl, p, ced) ==
    [k \in SlotKeys |->
        IF /\ k[2] = p
           /\ <<k[1], k[3]>> \in DOMAIN ced
           /\ se_puede_modificar_cesion(k[1])
        THEN [sl[k] EXCEPT !.owner_usa = ~ced[<<k[1], k[3]>>]]
        ELSE sl[k]]

TitularGuardar(p) ==
    /\ tit[p].pc = "guardar"
    /\ slots' = guardar_cesiones(slots, p, tit[p].cedencias)
    /\ tit' = [tit EXCEPT ![p] = TitIdle]
    /\ UNCHANGED <<hoy, ahora, pre_reservas, ev_solicitudes, sup, consulta,
                 last_auto_draw_date, llamadas_auto, auth, profile,
                 login_security, ahora_utc>>

\* "Aplicar modo vacaciones en este rango"
vacaciones_titular(sl, p, vac_ini, vac_fin) ==
    [k \in SlotKeys |->
        IF /\ k[2] = p
           /\ vac_ini <= k[1] /\ k[1] <= vac_fin
           /\ weekday(k[1]) < 5
           /\ se_puede_modificar_cesion(k[1])
        THEN [sl[k] EXCEPT !.owner_usa = FALSE]
        ELSE sl[k]]

TitularVacaciones(p, vac_ini, vac_fin) ==
    /\ tit[p].pc = "idle"
    /\ hoy <= vac_ini /\ vac_ini <= hoy + 28
    /\ hoy <= vac_fin /\ vac_fin <= hoy + 28
    /\ slots' = IF vac_fin < vac_ini THEN slots
                ELSE vacaciones_titular(slots, p, vac_ini, vac_fin)
    /\ UNCHANGED <<hoy, ahora, pre_reservas, ev_solicitudes, sup, tit, consulta,
                 last_auto_draw_date, llamadas_auto, auth, profile,
                 login_security, ahora_utc>>

\* a reset that does not look at reservado_por
cancelar_cesiones_sin_filtro(sl, p) ==
    LET manana == hoy + 1
    IN  [k \in SlotKeys |->
            IF k[2] = p /\ k[1] >= manana /\ sl[k].owner_usa = FALSE
            THEN [sl[k] EXCEPT !.owner_usa = TRUE]
            ELSE sl[k]]

\* "Cancelar cesiones futuras": PATCH slots where plaza_id, fecha >= manana,
\* owner_usa = false, reservado_por is null
cancelar_cesiones_futuras(sl, p) ==
    LET manana == hoy + 1
    IN  [k \in SlotKeys |->
            IF /\ k[2] = p
               /\ k[1] >= manana
               /\ sl[k].owner_usa = FALSE
               /\ sl[k].reservado_por = Null
            THEN [sl[k] EXCEPT !.owner_usa = TRUE]
            ELSE sl[k]]

TitularCancelarCesiones(p) ==
    /\ tit[p].pc = "idle"
    /\ slots' = cancelar_cesiones_futuras(slots, p)
    /\ consulta' = [fn |-> "cancelar_cesiones", fecha |-> hoy + 1, accion |-> Null,
                    res |-> TRUE, plaza_id |-> p,
                    cambiadas |-> Cardinality({k \in SlotKeys : slots'[k] # slots[k]})]
    /\ UNCHANGED <<hoy, ahora, pre_reservas, ev_solicitudes, sup, tit,
                 last_auto_draw_date, llamadas_auto, auth, profile,
                 login_security, ahora_utc>>

\* ----------------------------------------------------------- view_admin
\* "Aplicar modo vacaciones" of the admin: no policy is consulted
vacaciones_admin(sl, p, fecha_inicio, fecha_fin, solo_laborables) ==
    [k \in SlotKeys |->
        IF /\ k[2] = p
           /\ fecha_inicio <= k[1] /\ k[1] <= fecha_fin
           /\ ~(solo_laborables /\ weekday(k[1]) > 4)
        THEN [sl[k] EXCEPT !.owner_usa = FALSE]
        ELSE sl[k]]

AdminVacaciones(p, fecha_inicio, fecha_fin, solo_laborables) ==
    /\ hoy <= fecha_inicio
    /\ fecha_inicio <= fecha_fin
    /\ slots' = vacaciones_admin(slots, p, fecha_inicio, fecha_fin, solo_laborables)
    /\ UNCHANGED <<hoy, ahora, pre_reservas, ev_solicitudes, sup, tit, consulta,
                 last_auto_draw_date, llamadas_auto, auth, profile,
                 login_security, ahora_utc>>

\* ------------------------------------------------------------- the lottery
\* The lottery runs in the database (rpc/ejecutar_sorteo_con_ev), in one
\* transaction; its steps are those of the specification, section 4.3.

\* monthlyUsageCount: the slots reserved by the requester (every date of the
\* model lies in the month of the run)
uso_mensual(sl, u) == Cardinality({k \in SlotKeys : sl[k].reservado_por = u})

\* fairnessKey, then the row's rank of insertion
\* a key that breaks ties by the rank of insertion instead of the tag
clave_insercion(uso, tag, u, i) == uso[u] * 100 + i

clave(uso, tag, u, i) == uso[u] * 100 + tag[u] * 10 + i

libres_sorteo(sl, d, fr) ==
    {p \in Plazas : sl[<<d, p, fr>>].owner_usa = FALSE /\ sl[<<d, p, fr>>].reservado_por = Null}

asignar_slot(sl, d, fr, u) ==
    [sl EXCEPT ![<<d, Min(libres_sorteo(sl, d, fr)), fr>>] =
        [@ EXCEPT !.reservado_por = u, !.es_sorteo = TRUE]]

\* a run that takes up the rows it already assigned
pendientes_o_asignadas(pre, d) ==
    {i \in 1..Len(pre) : pre[i].fecha = d /\ pre[i].estado \in {"PENDIENTE", "ASIGNADO"}}

pendientes(pre, d) ==
    {i \in 1..Len(pre) : pre[i].fecha = d /\ pre[i].estado = "PENDIENTE"}

\* the packs: both rows PENDING, same requester, same pack_id
packs(pre, d) ==
    {i \in pendientes(pre, d) :
        /\ pre[i].franja = "M"
        /\ pre[i].pack_id # 0
        /\ \E j \in pendientes(pre, d) :
              /\ pre[j].franja = "T"
              /\ pre[j].pack_id = pre[i].pack_id
              /\ pre[j].usuario_id = pre[i].usuario_id}

pack_T(pre, d, i) ==
    Min({j \in pendientes(pre, d) : /\ pre[j].franja = "T"
                                   /\ pre[j].pack_id = pre[i].pack_id
                                   /\ pre[j].usuario_id = pre[i].usuario_id})

set_estado(pre, idx, estado) ==
    [i \in 1..Len(pre) |-> IF i \in idx THEN [pre[i] EXCEPT !.estado = estado] ELSE pre[i]]

\* a pack allocation that takes the AM slot without looking at PM
RECURSIVE asignar_packs_mitad(_, _, _, _, _)
asignar_packs_mitad(st, d, tag, uso0, left) ==
    IF left = {} THEN st
    ELSE
        LET i == CHOOSE x \in left : \A y \in left :
                    clave(uso0, tag, st.pre[x].usuario_id, x)
                        <= clave(uso0, tag, st.pre[y].usuario_id, y)
            j == pack_T(st.pre, d, i)
            u == st.pre[i].usuario_id
            slM == asignar_slot(st.slots, d, "M", u)
            st1 == IF libres_sorteo(st.slots, d, "M") # {}
                   THEN [slots |-> IF libres_sorteo(st.slots, d, "T") # {}
                                   THEN asignar_slot(slM, d, "T", u) ELSE slM,
                         pre |-> set_estado(st.pre, {i, j}, "ASIGNADO"),
                         uso |-> [st.uso EXCEPT ![u] = @ + 2]]
                   ELSE [st EXCEPT !.pre = set_estado(st.pre, {i, j}, "RECHAZADO")]
        IN  asignar_packs_mitad(st1, d, tag, uso0, left \ {i})

\* step 5: the packs, ascending by the key drawn before any allocation
RECURSIVE asignar_packs(_, _, _, _, _)
asignar_packs(st, d, tag, uso0, left) ==
    IF left = {} THEN st
    ELSE
        LET i == CHOOSE x \in left : \A y \in left :
                    clave(uso0, tag, st.pre[x].usuario_id, x)
                        <= clave(uso0, tag, st.pre[y].usuario_id, y)
            j == pack_T(st.pre, d, i)
            u == st.pre[i].usuario_id
            fits == libres_sorteo(st.slots, d, "M") # {} /\ libres_sorteo(st.slots, d, "T") # {}
            st1 == IF fits
                   THEN [slots |-> asignar_slot(asignar_slot(st.slots, d, "M", u), d, "T", u),
                         pre |-> set_estado(st.pre, {i, j}, "ASIGNADO"),
                         uso |-> [st.uso EXCEPT ![u] = @ + 2]]
                   ELSE [st EXCEPT !.pre = set_estado(st.pre, {i, j}, "RECHAZADO")]
        IN  asignar_packs(st1, d, tag, uso0, left \ {i})

\* step 6: the singles of one period, ascending by the key
RECURSIVE asignar_singles(_, _, _, _, _)
asignar_singles(st, d, fr, tag, left) ==
    IF left = {} THEN st
    ELSE
        LET i == CHOOSE x \in left : \A y \in left :
                    clave(st.uso, tag, st.pre[x].usuario_id, x)
                        <= clave(st.uso, tag, st.pre[y].usuario_id, y)
            u == st.pre[i].usuario_id
            st1 == IF libres_sorteo(st.slots, d, fr) # {}
                   THEN [st EXCEPT !.slots = asignar_slot(st.slots, d, fr, u),
                                   !.pre = set_estado(st.pre, {i}, "ASIGNADO")]
                   ELSE [st EXCEPT !.pre = set_estado(st.pre, {i}, "RECHAZADO")]
        IN  asignar_singles(st1, d, fr, tag, left \ {i})

singles(pre, d, fr) == {i \in pendientes(pre, d) : pre[i].franja = fr}

ejecutar_sorteo_con_ev(sl, pre, d, tag) ==
    LET uso0 == [u \in Users |-> uso_mensual(sl, u)]
        st0 == [slots |-> sl, pre |-> pre, uso |-> uso0]
        st1 == asignar_packs(st0, d, tag, uso0, packs(pre, d))
        st2 == asignar_singles(st1, d, "M", tag, singles(st1.pre, d, "M"))
    IN  asignar_singles(st2, d, "T", tag, singles(st2.pre, d, "T"))

\* one random tag per requester, drawn before sorting
Tags == {t \in [Users -> 1..Cardinality(Users)] : \A u, v \in Users : u # v => t[u] # t[v]}

\* ejecutar_sorteo(fecha_obj): the RPC answered with a status below 400
EjecutarSorteo(d, tag) ==
    /\ hoy <= d /\ d <= hoy + 30
    /\ LET r == ejecutar_sorteo_con_ev(slots, pre_reservas, d, tag)
       IN  /\ slots' = r.slots
           /\ pre_reservas' = r.pre
    /\ UNCHANGED <<hoy, ahora, ev_solicitudes, sup, tit, consulta,
                 last_auto_draw_date, llamadas_auto, auth, profile,
                 login_security, ahora_utc>>

\* The run settles the EV requests of the date as it settles the singles:
\* every PENDIENTE request becomes ASIGNADO (here: those of `asignados`) or
\* RECHAZADO.
ev_sorteo(ev, d, asignados) ==
    [k \in DOMAIN ev |->
        IF k[1] = d /\ ev[k].estado = "PENDIENTE"
        THEN [ev[k] EXCEPT !.estado = IF k[2] \in asignados THEN "ASIGNADO" ELSE "RECHAZADO"]
        ELSE ev[k]]

EjecutarSorteoEV(d, asignados) ==
    /\ hoy <= d /\ d <= hoy + 30
    /\ \E k \in DOMAIN ev_solicitudes : k[1] = d /\ ev_solicitudes[k].estado = "PENDIENTE"
    /\ ev_solicitudes' = ev_sorteo(ev_solicitudes, d, asignados)
    /\ UNCHANGED <<hoy, ahora, slots, pre_reservas, sup, tit, consulta,
                   last_auto_draw_date, llamadas_auto, auth, profile, login_security, ahora_utc>>

\* ------------------------------------------------------------------ login
\* a block that lasts one minute more
bloquear_de_mas(t) == t + BLOQUEO_MINUTOS + 1

\* ahora_utc + timedelta(minutes=BLOQUEO_MINUTOS)
bloquear(t) == t + BLOQUEO_MINUTOS

\* login(email, password, anon_key) in one session. The call is recorded:
\* res is whether it returned the tokens, contacto whether the POST to the
\* authentication server was made.
Login(email, resp) ==
    LET sec0 == login_security[email]
        bloqueado == sec0.blocked_until # SinBloqueo /\ ahora_utc < sec0.blocked_until
        sec == IF sec0.blocked_until # SinBloqueo THEN SecInicial ELSE sec0
        attempts == sec.attempts + 1
    IN  /\ consulta' = [fn |-> "login", email |-> email, accion |-> resp,
                        res |-> ~bloqueado /\ resp = "ok",
                        contacto |-> ~bloqueado]
        /\ login_security' =
              IF bloqueado \/ resp = "excepcion" THEN login_security
              ELSE IF resp = "ok" THEN [login_security EXCEPT ![email] = SecInicial]
              ELSE [login_security EXCEPT ![email] =
                      [attempts |-> attempts,
                       blocked_until |-> IF attempts >= MAX_INTENTOS
                                         THEN bloquear(ahora_utc) ELSE sec.blocked_until]]
        /\ UNCHANGED <<hoy, ahora, slots, pre_reservas, ev_solicitudes, sup, tit,
                       last_auto_draw_date, llamadas_auto, ahora_utc>>

\* ------------------------------------------------------------------ main
\* is_jwt_expired(access_token): the clock reaches the exp of the token of
\* the session.
TokenCaduca(s) ==
    /\ auth[s] = "vigente"
    /\ auth' = [auth EXCEPT ![s] = "caducado"]
    /\ UNCHANGED <<hoy, ahora, slots, pre_reservas, ev_solicitudes, sup, tit, consulta,
                   last_auto_draw_date, llamadas_auto, login_security, ahora_utc, profile>>

\* main(), no session: the login form. A click on "Entrar" calls login();
\* the tokens it returns are kept in the session, and the run ends.
MainEntrar(s, email, resp) ==
    /\ auth[s] = Null
    /\ Login(email, resp)
    /\ auth' = [auth EXCEPT ![s] = IF consulta'.res THEN "vigente" ELSE Null]
    /\ UNCHANGED profile

\* main(), the token of the session is expired: the session is dropped and
\* the run ends.
MainTokenCaducado(s) ==
    /\ auth[s] = "caducado"
    /\ auth' = [auth EXCEPT ![s] = Null]
    /\ profile' = [profile EXCEPT ![s] = Null]
    /\ consulta' = [fn |-> "main", fecha |-> hoy, accion |-> "caducado", res |-> FALSE,
                    sesion |-> s]
    /\ UNCHANGED <<hoy, ahora, slots, pre_reservas, ev_solicitudes, sup, tit,
                   last_auto_draw_date, llamadas_auto, login_security, ahora_utc>>

\* main(), load_profile finds no row of app_users: the run ends at the
\* message; with a click on "Cerrar sesión" it drops the session first.
MainSinPerfil(s, cerrar) ==
    /\ auth[s] = "vigente"
    /\ profile[s] = Null
    /\ auth' = [auth EXCEPT ![s] = IF cerrar THEN Null ELSE @]
    /\ consulta' = [fn |-> "main", fecha |-> hoy, accion |-> "sin_perfil", res |-> FALSE,
                    sesion |-> s]
    /\ UNCHANGED <<hoy, ahora, slots, pre_reservas, ev_solicitudes, sup, tit,
                   last_auto_draw_date, llamadas_auto, login_security, ahora_utc, profile>>

\* a mark compared with the date of the lottery
ya_ejecutado_manana(s) == last_auto_draw_date[s] = hoy + 1

\* ya_ejecutado_hoy = (st.session_state.last_auto_draw_date == hoy)
ya_ejecutado_hoy(s) == last_auto_draw_date[s] = hoy

\* main(): the automatic trigger in a script run of session s, whose token
\* is not expired and whose profile is loaded (in this run if it was not).
\* From 20:00 on, and unless this session already did it today, it calls
\* ejecutar_sorteo(hoy + 1), whose request succeeds (ok) or fails, and then
\* marks today as done in the session; the run ends there.
AutoSorteo(s, ok, tag) ==
    /\ auth[s] = "vigente"
    /\ profile' = [profile EXCEPT ![s] = "perfil"]
    /\ ahora >= limite
    /\ ~ya_ejecutado_hoy(s)
    /\ LET fecha_sorteo == hoy + 1
           r == IF ok /\ fecha_sorteo \in Dates
                THEN ejecutar_sorteo_con_ev(slots, pre_reservas, fecha_sorteo, tag)
                ELSE [slots |-> slots, pre |-> pre_reservas]
       IN  /\ slots' = r.slots
           /\ pre_reservas' = r.pre
           /\ llamadas_auto' = [llamadas_auto EXCEPT ![fecha_sorteo] = @ + 1]
           /\ consulta' = [fn |-> "auto_sorteo", fecha |-> fecha_sorteo, accion |-> Null,
                           res |-> ok, sesion |-> s]
    /\ last_auto_draw_date' = [last_auto_draw_date EXCEPT ![s] = hoy]
    /\ UNCHANGED <<hoy, ahora, ev_solicitudes, sup, tit,
                 login_security, ahora_utc, auth>>

\* main(), the trigger does not fire: the header and the view of the role
\* are rendered; a click on "Cerrar sesión" drops the session.
MainVista(s, cerrar) ==
    /\ auth[s] = "vigente"
    /\ ~(ahora >= limite /\ ~ya_ejecutado_hoy(s))
    /\ auth' = [auth EXCEPT ![s] = IF cerrar THEN Null ELSE @]
    /\ profile' = [profile EXCEPT ![s] = IF cerrar THEN Null ELSE "perfil"]
    /\ consulta' = [fn |-> "main", fecha |-> hoy, accion |-> "vista", res |-> TRUE,
                    sesion |-> s]
    /\ UNCHANGED <<hoy, ahora, slots, pre_reservas, ev_solicitudes, sup, tit,
                   last_auto_draw_date, llamadas_auto, login_security, ahora_utc>>

\* cancelar_sorteo: PATCH pre_reservas where fecha, estado in (ASIGNADO,
\* RECHAZADO); a status >= 400 returns before the second request
revertir_pre(pre, d) ==
    [i \in 1..Len(pre) |->
        IF pre[i].fecha = d /\ pre[i].estado \in {"ASIGNADO", "RECHAZADO"}
        THEN [pre[i] EXCEPT !.estado = "PENDIENTE"]
        ELSE pre[i]]

liberar_slots_todos(sl, d) ==
    [k \in SlotKeys |->
        IF k[1] = d
        THEN [sl[k] EXCEPT !.reservado_por = Null, !.es_sorteo = FALSE]
        ELSE sl[k]]

\* cancelar_sorteo: PATCH slots where fecha, es_sorteo = true
liberar_slots_sorteo(sl, d) ==
    [k \in SlotKeys |->
        IF k[1] = d /\ sl[k].es_sorteo
        THEN [sl[k] EXCEPT !.reservado_por = Null, !.es_sorteo = FALSE]
        ELSE sl[k]]

\* cancelar_sorteo(fecha_obj): ok_pre and ok_slots say whether the first and
\* the second PATCH answered with a status below 400; the call is recorded
\* with whether it reached its success message and the rows it changed.
CancelarSorteo(d, ok_pre, ok_slots) ==
    /\ hoy <= d /\ d <= hoy + 30
    /\ pre_reservas' = IF ok_pre THEN revertir_pre(pre_reservas, d) ELSE pre_reservas
    /\ slots' = IF ok_pre /\ ok_slots THEN liberar_slots_sorteo(slots, d) ELSE slots
    /\ consulta' = [fn |-> "cancelar_sorteo", fecha |-> d, accion |-> Null,
                    res |-> ok_pre /\ ok_slots,
                    revertidas |-> Cardinality({i \in 1..Len(pre_reservas) :
                                        pre_reservas'[i] # pre_reservas[i]}),
                    liberadas |-> Cardinality({k \in SlotKeys : slots'[k] # slots[k]})]
    /\ UNCHANGED <<hoy, ahora, ev_solicitudes, sup, tit,
                 last_auto_draw_date, llamadas_auto, auth, profile,
                 login_security, ahora_utc>>

Tables0 ==
    /\ slots = [k \in SlotKeys |-> SlotDefault]
    /\ pre_reservas = <<>>
    /\ ev_solicitudes = [k \in Dates \X Users |-> EvNone]
    /\ sup = [u \in Users |-> SupIdle]
    /\ tit = [p \in Plazas |-> TitIdle]
    /\ consulta = ConsultaNone
    /\ last_auto_draw_date = [s \in Sesiones |-> SinFecha]
    /\ llamadas_auto = [d \in FechasSorteo |-> 0]
    /\ auth = [s \in Sesiones |-> Null]
    /\ profile = [s \in Sesiones |-> Null]
    /\ login_security = [e \in Emails |-> SecInicial]
    /\ ahora_utc = 0

InitPolicy ==
    /\ hoy \in 0..MaxDay
    /\ ahora \in HorasPolicy
    /\ Tables0

NextPolicy ==
    \/ \E d \in PolicyDates, a \in Acciones : ConsultaSlot(d, a)
    \/ \E d \in PolicyDates : ConsultaCesion(d)

SpecPolicy == InitPolicy /\ [][NextPolicy]_vars

\* ---------------------------------------------------------- specification
Init ==
    /\ hoy = 0
    /\ ahora = Min(Horas)
    /\ Tables0

InputsParking(h) == {in \in Inputs(h) : ~in.ev_m /\ ~in.ev_t}
InputsSingles(h) == {in \in InputsParking(h) : ~in.full}
InputsEV(h) == {in \in Inputs(h) : ~in.full /\ ~in.M /\ ~in.T}

\* Two suplentes on one day: u1 asks for packs and periods, u2 only for
\* periods of today; the admin cedes the plazas; the lottery. No EV box is
\* ticked.
Next ==
    \/ TickMinuto
    \/ \E in \in InputsParking(hoy) : SuplenteGuardar("u1", in) /\ Len(pre_reservas') <= RowsCarrera
    \/ \E in \in InputsSingles(hoy) : SuplenteGuardar("u2", in) /\ pre_reservas' = pre_reservas
    \/ \E u \in Users, ok \in BOOLEAN : SuplenteReservar(u, ok)
    \/ \E p \in Plazas, fi \in Dates, ff \in Dates, sl \in BOOLEAN : AdminVacaciones(p, fi, ff, sl)
    \/ \E d \in Dates, tag \in Tags : EjecutarSorteo(d, tag)

Spec == Init /\ [][Next]_vars

\* Two suplentes reserving periods of today directly, and the admin who
\* cedes the plazas: no request row, no lottery.
NextCarrera ==
    \/ TickMinuto
    \/ TickDia
    \/ \E u \in Users : \E in \in InputsSingles(hoy) : SuplenteGuardar(u, in) /\ pre_reservas' = pre_reservas
    \/ \E u \in Users, ok \in BOOLEAN : SuplenteReservar(u, ok)
    \/ \E p \in Plazas, fi \in Dates, ff \in Dates, sl \in BOOLEAN : AdminVacaciones(p, fi, ff, sl)

SpecCarrera == Init /\ [][NextCarrera]_vars

\* One suplente over the days; no plaza is ceded.
NextSuplente ==
    \/ TickMinuto
    \/ TickDia
    \/ \E in \in InputsParking(hoy) : SuplenteGuardar("u1", in)

SpecSuplente == Init /\ [][NextSuplente]_vars

\* The titulares, one suplente asking for single periods, and the lottery.
NextTitular ==
    \/ TickMinuto
    \/ TickDia
    \/ \E p \in Plazas : \E in \in InputsTitular(hoy) : TitularLeer(p, in)
    \/ \E p \in Plazas : TitularGuardar(p)
    \/ \E p \in Plazas, vac_ini \in Dates, vac_fin \in Dates : TitularVacaciones(p, vac_ini, vac_fin)
    \/ \E p \in Plazas : TitularCancelarCesiones(p)
    \/ \E in \in InputsSingles(hoy) : SuplenteGuardar("u1", in) /\ Len(pre_reservas') <= 1
    \/ \E ok \in BOOLEAN : SuplenteReservar("u1", ok)
    \/ \E d \in Dates, tag \in Tags : EjecutarSorteo(d, tag)

SpecTitular == Init /\ [][NextTitular]_vars

\* The EV requests of the suplentes: no parking box is ticked.
NextEV ==
    \/ TickMinuto
    \/ TickDia
    \/ \E u \in Users : \E in \in InputsEV(hoy) : SuplenteGuardar(u, in)

SpecEV == Init /\ [][NextEV]_vars

\* The lottery and its reversal on the tables of one day of requests: the
\* slots of today are ceded or not and reserved directly or not, and each
\* suplente has asked for nothing, a period, a full day, or has cancelled.
Pedidos == {"none", "M", "T", "pack", "cancelada"}

pedir(db, u, d, pedido) ==
    CASE pedido = "M" -> insert_single(db, u, d, "M")
      [] pedido = "T" -> insert_single(db, u, d, "T")
      [] pedido = "pack" -> insert_pack(db, u, d)
      [] pedido = "cancelada" -> cancel_pre(insert_single(db, u, d, "M"), u, d, "M")
      [] OTHER -> db

SlotRows ==
    {SlotDefault, [SlotDefault EXCEPT !.owner_usa = FALSE]}
        \cup {[SlotDefault EXCEPT !.owner_usa = FALSE, !.reservado_por = u] : u \in Users}

\* only a slot of today can have been reserved directly
SlotsIniciales(h) ==
    {sl \in [SlotKeys -> SlotRows] :
        \A k \in SlotKeys : sl[k].reservado_por # Null => k[1] = h}

InitSorteo ==
    /\ hoy = 0
    /\ ahora = Min(Horas)
    /\ ev_solicitudes = [k \in Dates \X Users |-> EvNone]
    /\ sup = [u \in Users |-> SupIdle]
    /\ tit = [p \in Plazas |-> TitIdle]
    /\ consulta = ConsultaNone
    /\ last_auto_draw_date = [s \in Sesiones |-> SinFecha]
    /\ llamadas_auto = [d \in FechasSorteo |-> 0]
    /\ auth = [s \in Sesiones |-> Null]
    /\ profile = [s \in Sesiones |-> Null]
    /\ login_security = [e \in Emails |-> SecInicial]
    /\ ahora_utc = 0
    /\ slots \in SlotsIniciales(hoy)
    /\ \E fecha_sorteo \in Dates, primero \in Users, segundo \in Users :
        \E p1 \in Pedidos, p2 \in Pedidos :
          /\ primero # segundo
          /\ pre_reservas =
                pedir(pedir([slots |-> slots, pre |-> <<>>, ev |-> ev_solicitudes],
                            primero, fecha_sorteo, p1),
                      segundo, fecha_sorteo, p2).pre

NextSorteo ==
    \/ \E d \in Dates, tag \in Tags : EjecutarSorteo(d, tag)
    \/ \E d \in Dates, ok_pre \in BOOLEAN, ok_slots \in BOOLEAN : CancelarSorteo(d, ok_pre, ok_slots)

SpecSorteo == InitSorteo /\ [][NextSorteo]_vars

\* The reversal of a lottery among direct reservations, at one time of day:
\* u1 asks for full days, u2 reserves periods of today, every slot write
\* succeeds, and the admin's "Reiniciar sorteos" succeeds.
InputsFull(h) == {in \in InputsParking(h) : in.full /\ ~in.M /\ ~in.T}

NextReverso ==
    \/ \E in \in InputsFull(hoy) : SuplenteGuardar("u1", in) /\ Len(pre_reservas') <= RowsCarrera
    \/ \E in \in InputsSingles(hoy) : SuplenteGuardar("u2", in) /\ pre_reservas' = pre_reservas
    \/ \E u \in Users : SuplenteReservar(u, TRUE)
    \/ \E p \in Plazas, fi \in Dates, ff \in Dates, sl \in BOOLEAN : AdminVacaciones(p, fi, ff, sl)
    \/ \E d \in Dates, tag \in Tags : EjecutarSorteo(d, tag)
    \/ \E d \in Dates : CancelarSorteo(d, TRUE, TRUE)

SpecReverso == Init /\ [][NextReverso]_vars

\* The automatic lottery: two sessions load pages while the clock passes
\* 20:00 on two days; u1 asks for periods and the admin cedes the plazas.
NextAuto ==
    \/ TickMinuto
    \/ TickDia
    \/ \E s \in Sesiones, ok \in BOOLEAN, tag \in Tags : AutoSorteo(s, ok, tag)
    \/ \E in \in InputsSingles(hoy) : SuplenteGuardar("u1", in) /\ Len(pre_reservas') <= RowsCarrera
    \/ \E p \in Plazas, fi \in Dates, ff \in Dates, sl \in BOOLEAN : AdminVacaciones(p, fi, ff, sl)

\* both sessions are logged in and their profiles are loaded
InitAuto ==
    /\ hoy = 0
    /\ ahora = Min(Horas)
    /\ slots = [k \in SlotKeys |-> SlotDefault]
    /\ pre_reservas = <<>>
    /\ ev_solicitudes = [k \in Dates \X Users |-> EvNone]
    /\ sup = [u \in Users |-> SupIdle]
    /\ tit = [p \in Plazas |-> TitIdle]
    /\ consulta = ConsultaNone
    /\ last_auto_draw_date = [s \in Sesiones |-> SinFecha]
    /\ llamadas_auto = [d \in FechasSorteo |-> 0]
    /\ login_security = [e \in Emails |-> SecInicial]
    /\ ahora_utc = 0
    /\ auth = [s \in Sesiones |-> "vigente"]
    /\ profile = [s \in Sesiones |-> "perfil"]

SpecAuto == InitAuto /\ [][NextAuto]_vars

\* One session from the login form on: it logs in, its token expires, its
\* profile is or is not found, and its pages load while the clock passes
\* 20:00 on two days.
NextMain ==
    \/ TickMinuto
    \/ TickDia
    \/ TokenCaduca("s1")
    \/ \E resp \in Respuestas : MainEntrar("s1", "a@km0", resp)
    \/ MainTokenCaducado("s1")
    \/ \E cerrar \in BOOLEAN : MainSinPerfil("s1", cerrar)
    \/ \E ok \in BOOLEAN, tag \in Tags : AutoSorteo("s1", ok, tag)
    \/ \E cerrar \in BOOLEAN : MainVista("s1", cerrar)

SpecMain == Init /\ [][NextMain]_vars

\* every slot is ceded and free, or not ceded
SlotsCedidos == [SlotKeys -> {SlotDefault, [SlotDefault EXCEPT !.owner_usa = FALSE]}]

\* The requester's client on the tables a lottery may have left: the
\* requests of u1 for one date, with u2 asking for the morning or not,
\* settled by a run or not, and then the saves of u1 on one day.
InitCiclo ==
    /\ hoy = 0
    /\ ahora = Min(Horas)
    /\ ev_solicitudes = [k \in Dates \X Users |-> EvNone]
    /\ sup = [u \in Users |-> SupIdle]
    /\ tit = [p \in Plazas |-> TitIdle]
    /\ consulta = ConsultaNone
    /\ last_auto_draw_date = [s \in Sesiones |-> SinFecha]
    /\ llamadas_auto = [d \in FechasSorteo |-> 0]
    /\ auth = [s \in Sesiones |-> Null]
    /\ profile = [s \in Sesiones |-> Null]
    /\ login_security = [e \in Emails |-> SecInicial]
    /\ ahora_utc = 0
    /\ \E sl \in SlotsCedidos, fecha_sorteo \in Dates, p1 \in Pedidos, p2 \in {"none", "M"} :
        \E sorteado \in BOOLEAN, tag \in Tags :
          LET db == pedir(pedir([slots |-> sl, pre |-> <<>>, ev |-> ev_solicitudes],
                                "u1", fecha_sorteo, p1),
                          "u2", fecha_sorteo, p2)
              r == IF sorteado THEN ejecutar_sorteo_con_ev(sl, db.pre, fecha_sorteo, tag)
                   ELSE [slots |-> sl, pre |-> db.pre]
          IN  /\ slots = r.slots
              /\ pre_reservas = r.pre

NextCiclo ==
    \/ \E in \in InputsParking(hoy) : SuplenteGuardar("u1", in)
    \/ \E ok \in BOOLEAN : SuplenteReservar("u1", ok)

SpecCiclo == InitCiclo /\ [][NextCiclo]_vars

\* One suplente over the days, with every box of the page: parking and EV.
NextCancelar ==
    \/ TickMinuto
    \/ TickDia
    \/ \E in \in Inputs(hoy) : SuplenteGuardar("u1", in)

SpecCancelar == Init /\ [][NextCancelar]_vars

\* Slots blocked for EV charging ("Bloqueado EV (carga)" of the admin view:
\* ceded, not reserved, slot_bloqueado_para set) among the slots of today,
\* and the suplentes who reserve periods of today directly.
SlotRowsBloqueo ==
    {SlotDefault, [SlotDefault EXCEPT !.owner_usa = FALSE],
     [SlotDefault EXCEPT !.owner_usa = FALSE, !.slot_bloqueado_para = "EV_CHARGE"]}

InitBloqueo ==
    /\ hoy = 0
    /\ ahora = Min(Horas)
    /\ slots \in [SlotKeys -> SlotRowsBloqueo]
    /\ pre_reservas = <<>>
    /\ ev_solicitudes = [k \in Dates \X Users |-> EvNone]
    /\ sup = [u \in Users |-> SupIdle]
    /\ tit = [p \in Plazas |-> TitIdle]
    /\ consulta = ConsultaNone
    /\ last_auto_draw_date = [s \in Sesiones |-> SinFecha]
    /\ llamadas_auto = [d \in FechasSorteo |-> 0]
    /\ auth = [s \in Sesiones |-> Null]
    /\ profile = [s \in Sesiones |-> Null]
    /\ login_security = [e \in Emails |-> SecInicial]
    /\ ahora_utc = 0

NextBloqueo ==
    \/ \E u \in Users, in \in InputsSingles(hoy) :
          SuplenteGuardar(u, in) /\ pre_reservas' = pre_reservas
    \/ \E u \in Users, ok \in BOOLEAN : SuplenteReservar(u, ok)

SpecBloqueo == InitBloqueo /\ [][NextBloqueo]_vars

\* The EV requests of the suplentes, and the run that settles them.
NextEVSorteo ==
    \/ TickMinuto
    \/ TickDia
    \/ \E u \in Users : \E in \in InputsEV(hoy) : SuplenteGuardar(u, in)
    \/ \E d \in Dates, asignados \in SUBSET Users : EjecutarSorteoEV(d, asignados)

SpecEVSorteo == Init /\ [][NextEVSorteo]_vars

\* ------------------------------------------------------- login: clock
\* a minute passes
TickUtc ==
    /\ ahora_utc < MaxMinutos
    /\ ahora_utc' = ahora_utc + 1
    /\ UNCHANGED <<hoy, ahora, slots, pre_reservas, ev_solicitudes, sup, tit, consulta,
                   last_auto_draw_date, llamadas_auto, auth, profile, login_security>>

NextLogin ==
    \/ TickUtc
    \/ \E email \in Emails, resp \in Respuestas :
          Login(email, resp) /\ UNCHANGED <<auth, profile>>

SpecLogin == Init /\ [][NextLogin]_vars

\* ------------------------------------------- view_suplente: monthly usage
\* A calendar date is <<year, month, day>>; dates compare as in datetime.
fecha_lt(a, b) ==
    \/ a[1] < b[1]
    \/ a[1] = b[1] /\ a[2] < b[2]
    \/ a[1] = b[1] /\ a[2] = b[2] /\ a[3] < b[3]

fecha_le(a, b) == a = b \/ fecha_lt(a, b)

\* hoy.replace(day=1)
first_day(h) == <<h[1], h[2], 1>>

\* a next bound that stays in the year of the month
next_month_first_mismo_anio(fd) ==
    IF fd[2] = 12 THEN <<fd[1], (fd[2] % 12) + 1, 1>>
    ELSE <<fd[1], fd[2] + 1, 1>>

next_month_first(fd) ==
    IF fd[2] = 12 THEN <<fd[1] + (fd[2] \div 12), (fd[2] % 12) + 1, 1>>
    ELSE <<fd[1], fd[2] + 1, 1>>

\* GET slots where reservado_por = user_id and fecha >= first_day, then the
\* rows f with first_day <= f < next_month_first
usadas_mes(filas, h) ==
    LET usadas_raw == {x \in filas : fecha_le(first_day(h), x[1])}
    IN  {x \in usadas_raw : /\ fecha_le(first_day(h), x[1])
                             /\ fecha_lt(x[1], next_month_first(first_day(h)))}

\* the days the page is opened on, and the dates of the slot rows held by
\* the requester: around the ends of November, December and January
HoyUso == {<<2024, 11, 30>>, <<2024, 12, 1>>, <<2024, 12, 31>>, <<2025, 1, 1>>, <<2025, 1, 31>>}
FechasUso == {<<2024, 11, 30>>, <<2024, 12, 1>>, <<2024, 12, 31>>, <<2025, 1, 1>>, <<2025, 12, 31>>}

InitUso ==
    /\ hoy = 0
    /\ ahora = Min(Horas)
    /\ slots = [k \in SlotKeys |-> SlotDefault]
    /\ pre_reservas = <<>>
    /\ ev_solicitudes = [k \in Dates \X Users |-> EvNone]
    /\ sup = [u \in Users |-> SupIdle]
    /\ tit = [p \in Plazas |-> TitIdle]
    /\ last_auto_draw_date = [s \in Sesiones |-> SinFecha]
    /\ llamadas_auto = [d \in FechasSorteo |-> 0]
    /\ auth = [s \in Sesiones |-> Null]
    /\ profile = [s \in Sesiones |-> Null]
    /\ login_security = [e \in Emails |-> SecInicial]
    /\ ahora_utc = 0
    /\ \E h \in HoyUso, filas \in SUBSET (FechasUso \X FranjaSet) :
          consulta = [fn |-> "abrir", hoy |-> h, filas |-> filas, res |-> 0]

\* view_suplente, part 1: "Franjas utilizadas este mes"
KpiUsoMensual ==
    /\ consulta.fn = "abrir"
    /\ consulta' = [consulta EXCEPT !.fn = "uso_mensual",
                                    !.res = Cardinality(usadas_mes(consulta.filas, consulta.hoy))]
    /\ UNCHANGED <<hoy, ahora, slots, pre_reservas, ev_solicitudes, sup, tit,
                   last_auto_draw_date, llamadas_auto, auth, profile,
                 login_security, ahora_utc>>

SpecUso == InitUso /\ [][KpiUsoMensual]_vars

\* ------------------------------------------------------------- properties

\* C1: no double assignment. A slot that is reserved is never overwritten by
\* a later writer: its reservado_por stays, or the slot is released.
NoDoubleAssignment ==
    [][\A k \in SlotKeys :
          slots[k].reservado_por # Null
              => slots'[k].reservado_por \in {Null, slots[k].reservado_por}]_vars

\* C2: in every reachable state a reserved slot is a ceded slot
\* (reservado_por # null => owner_usa = false).
ReservedImpliesCeded ==
    \A k \in SlotKeys : slots[k].reservado_por # Null => slots[k].owner_usa = FALSE

\* C3: pack atomicity. Two rows sharing a pack_id are never one ASIGNADO and
\* the other RECHAZADO.
PackAtomicity ==
    \A i, j \in 1..Len(pre_reservas) :
        /\ pre_reservas[i].pack_id # 0
        /\ pre_reservas[i].pack_id = pre_reservas[j].pack_id
        => ~(pre_reservas[i].estado = "ASIGNADO" /\ pre_reservas[j].estado = "RECHAZADO")

\* C4: no step takes a request of today from PENDIENTE or ASIGNADO to
\* CANCELADO.
NoCancelToday ==
    [][\A i \in 1..Len(pre_reservas) :
          /\ pre_reservas[i].fecha = hoy
          /\ pre_reservas[i].estado \in {"PENDIENTE", "ASIGNADO"}
          => pre_reservas'[i].estado # "CANCELADO"]_vars

\* C5: a call of se_puede_modificar_slot for a date from today on and an
\* action reservar or cancelar returns the policy table: today reservar yes
\* and cancelar no, tomorrow only before 20:00, later dates always.
PolicyTable(d, a) ==
    CASE d = hoy -> a = "reservar"
      [] d = hoy + 1 -> ahora \in {h \in HorasPolicy : h < limite}
      [] OTHER -> TRUE

SlotPolicyIsTable ==
    consulta.fn = "slot" /\ consulta.fecha >= hoy
        => consulta.res = PolicyTable(consulta.fecha, consulta.accion)

\* a call for tomorrow at exactly 20:00, answered no
SlotPolicyAtLimit ==
    /\ consulta.fn = "slot"
    /\ consulta.fecha = hoy + 1
    /\ ahora = limite
    /\ consulta.res = FALSE

\* C6: a call of se_puede_modificar_cesion for tomorrow returns true before
\* 20:00 (19:59 included) and false from 20:00 on (20:00 and 20:01
\* included); for today it returns false at every time.
CesionPolicyScenarioD ==
    consulta.fn = "cesion" =>
        /\ consulta.fecha = hoy + 1 /\ ahora < limite => consulta.res = TRUE
        /\ consulta.fecha = hoy + 1 /\ ahora >= limite => consulta.res = FALSE
        /\ consulta.fecha = hoy => consulta.res = FALSE

\* a call for tomorrow at exactly 20:00, answered no
CesionPolicyAtLimit ==
    /\ consulta.fn = "cesion"
    /\ consulta.fecha = hoy + 1
    /\ ahora = limite
    /\ consulta.res = FALSE

\* C7: a titular operation changes owner_usa of a slot of date d only if the
\* cession policy allows editing d when it runs (under SpecTitular only the
\* titular's operations change owner_usa).
TitularRespectsPolicy ==
    [][\A k \in SlotKeys :
          slots'[k].owner_usa # slots[k].owner_usa => se_puede_modificar_cesion(k[1])]_vars

\* C8: from 20:00 on, a suplente's save creates no request row for tomorrow
\* and changes the state of none (under SpecSuplente only the suplente's
\* saves write pre_reservas).
ClosedWindowNoRequestChange ==
    [][ahora >= limite =>
          /\ \A i \in 1..Len(pre_reservas') :
                i > Len(pre_reservas) => pre_reservas'[i].fecha # hoy + 1
          /\ \A i \in 1..Len(pre_reservas) :
                pre_reservas[i].fecha = hoy + 1
                    => pre_reservas'[i].estado = pre_reservas[i].estado]_vars

\* C9: from 20:00 on, a suplente's save leaves the EV request rows of
\* tomorrow unchanged.
ClosedWindowEVUnchanged ==
    [][ahora >= limite =>
          \A u \in Users :
              hoy + 1 \in Dates
                  => ev_solicitudes'[<<hoy + 1, u>>] = ev_solicitudes[<<hoy + 1, u>>]]_vars

\* C10: the POST of a direct reservation made when the period has no free
\* slot changes no slot row.
NoCapacityNoMutation ==
    [][\A u \in Users :
          /\ sup[u].pc = "post"
          /\ sup'[u] # sup[u]
          /\ libres(slots, Head(sup[u].todo).d, Head(sup[u].todo).fr) = 0
          => slots' = slots]_vars

\* C11: a failed direct reservation leaves no partial state. The step that
\* ends a direct reservation takes the requester's request of that date and
\* period from PENDIENTE to ASIGNADO only if a slot of that date and period
\* is then reserved by the requester.
DirectAssignedHasSlot ==
    [][\A u \in Users :
          sup[u].pc = "post" /\ sup'[u] # sup[u] =>
              LET e == Head(sup[u].todo)
              IN  \A i \in 1..Len(pre_reservas) :
                      /\ pre_reservas[i].usuario_id = u
                      /\ pre_reservas[i].fecha = e.d
                      /\ pre_reservas[i].franja = e.fr
                      /\ pre_reservas[i].estado = "PENDIENTE"
                      /\ pre_reservas'[i].estado = "ASIGNADO"
                      => \E p \in Plazas : slots'[<<e.d, p, e.fr>>].reservado_por = u]_vars

\* C12: the frame of a successful cancelar_sorteo(D). Every request of D
\* that was ASIGNADO or RECHAZADO is PENDIENTE and every other request row
\* is as it was; every slot of D with es_sorteo has reservado_por null and
\* es_sorteo false; every slot of D without es_sorteo keeps its
\* reservado_por; owner_usa and the rows of other dates are unchanged.
CancelarSorteoFrame ==
    [][\A d \in Dates :
          CancelarSorteo(d, TRUE, TRUE) =>
              /\ Len(pre_reservas') = Len(pre_reservas)
              /\ \A i \in 1..Len(pre_reservas) :
                    IF /\ pre_reservas[i].fecha = d
                       /\ pre_reservas[i].estado \in {"ASIGNADO", "RECHAZADO"}
                    THEN pre_reservas'[i] = [pre_reservas[i] EXCEPT !.estado = "PENDIENTE"]
                    ELSE pre_reservas'[i] = pre_reservas[i]
              /\ \A k \in SlotKeys :
                    /\ slots'[k].owner_usa = slots[k].owner_usa
                    /\ k[1] # d => slots'[k] = slots[k]
                    /\ k[1] = d /\ slots[k].es_sorteo
                          => slots'[k].reservado_por = Null /\ ~slots'[k].es_sorteo
                    /\ k[1] = d /\ ~slots[k].es_sorteo
                          => slots'[k].reservado_por = slots[k].reservado_por
              /\ ev_solicitudes' = ev_solicitudes]_vars

\* a successful cancelar_sorteo(D) has reset requests and released lottery
\* slots of D, and has left a direct reservation of D in place
CancelarSorteoHecho ==
    /\ consulta.fn = "cancelar_sorteo"
    /\ consulta.res
    /\ consulta.revertidas > 0
    /\ consulta.liberadas > 0
    /\ \E k \in SlotKeys :
          k[1] = consulta.fecha /\ slots[k].reservado_por # Null /\ ~slots[k].es_sorteo
    /\ \E i \in 1..Len(pre_reservas) :
          pre_reservas[i].fecha = consulta.fecha /\ pre_reservas[i].estado = "PENDIENTE"
    /\ \A i \in 1..Len(pre_reservas) :
          pre_reservas[i].fecha = consulta.fecha
              => pre_reservas[i].estado \notin {"ASIGNADO", "RECHAZADO"}
    /\ \A k \in SlotKeys : k[1] = consulta.fecha => ~slots[k].es_sorteo

\* C13: cancelar_sorteo(D) is all-or-nothing. In every outcome of its two
\* requests, either the requests of D are reset and the lottery slots of D
\* are released, or no request row and no slot row is changed.
CancelarSorteoAtomico ==
    [][\A d \in Dates, ok_pre \in BOOLEAN, ok_slots \in BOOLEAN :
          CancelarSorteo(d, ok_pre, ok_slots) =>
              \/ /\ pre_reservas' = revertir_pre(pre_reservas, d)
                 /\ slots' = liberar_slots_sorteo(slots, d)
              \/ /\ pre_reservas' = pre_reservas
                 /\ slots' = slots]_vars

\* C14: cancelar_sorteo(D) releases no slot whose reservado_por is not the
\* requester the lottery assigned. The lottery assigns a slot only to a
\* requester with a request row of that date and period, so the reversal
\* releases no slot whose holder has no such row.
ReversoSoloLoAsignado ==
    [][\A d \in Dates :
          CancelarSorteo(d, TRUE, TRUE) =>
              \A k \in SlotKeys :
                  slots[k].reservado_por # Null /\ slots'[k].reservado_por = Null
                      => \E i \in 1..Len(pre_reservas) :
                            /\ pre_reservas[i].fecha = k[1]
                            /\ pre_reservas[i].franja = k[3]
                            /\ pre_reservas[i].usuario_id = slots[k].reservado_por]_vars

\* C15: cancelling a request releases its slot. After a step that takes a
\* request to CANCELADO, no slot of its date and period is reserved by its
\* requester.
CancelReleasesSlot ==
    [][\A i \in 1..Len(pre_reservas) :
          pre_reservas[i].estado # "CANCELADO" /\ pre_reservas'[i].estado = "CANCELADO"
              => \A p \in Plazas :
                    slots'[<<pre_reservas[i].fecha, p, pre_reservas[i].franja>>].reservado_por
                        # pre_reservas[i].usuario_id]_vars

\* C16: however many sessions load the page after 20:00 of one day, the
\* automatic trigger calls the lottery for tomorrow's date at most once.
AutoSorteoUnaVez ==
    \A d \in FechasSorteo : llamadas_auto[d] <= 1

\* C17: an automatic call that fails does not mark the day as done in the
\* session, so that a later page load of the session calls the lottery again.
AutoSorteoFalloNoMarca ==
    [][\A s \in Sesiones, tag \in Tags :
          AutoSorteo(s, FALSE, tag) => last_auto_draw_date'[s] # hoy]_vars

\* C18: a second run of the lottery for a date, with no change to the
\* PENDIENTE rows in between, changes nothing: whatever tags it draws, it
\* writes no slot and changes the state of no request.
SorteoIdempotente ==
    [][\A d \in Dates, tag \in Tags :
          EjecutarSorteo(d, tag) =>
              \A tag2 \in Tags :
                  LET r == ejecutar_sorteo_con_ev(slots', pre_reservas', d, tag2)
                  IN  r.slots = slots' /\ r.pre = pre_reservas']_vars

\* a date whose lottery has run: a request assigned to a lottery slot, a
\* request rejected, none pending, and a ceded slot of the date still free
SorteoYaHecho ==
    \E d \in Dates :
        /\ \E i \in 1..Len(pre_reservas), p \in Plazas :
              /\ pre_reservas[i].fecha = d
              /\ pre_reservas[i].estado = "ASIGNADO"
              /\ slots[<<d, p, pre_reservas[i].franja>>].reservado_por = pre_reservas[i].usuario_id
              /\ slots[<<d, p, pre_reservas[i].franja>>].es_sorteo
        /\ \E i \in 1..Len(pre_reservas) :
              pre_reservas[i].fecha = d /\ pre_reservas[i].estado = "RECHAZADO"
        /\ pendientes(pre_reservas, d) = {}
        /\ \E fr \in FranjaSet : libres_sorteo(slots, d, fr) # {}

EscenarioB ==
    [][\A d \in Dates, tag \in Tags :
          LET uso0 == [u \in Users |-> uso_mensual(slots, u)]
              st0 == [slots |-> slots, pre |-> pre_reservas, uso |-> uso0]
              st1 == asignar_packs(st0, d, tag, uso0, packs(pre_reservas, d))
          IN  /\ EjecutarSorteo(d, tag)
              /\ Cardinality(libres_sorteo(slots, d, "M")) = 1
              /\ libres_sorteo(slots, d, "T") = {}
              /\ Cardinality(packs(pre_reservas, d)) = 1
              => \A i \in packs(pre_reservas, d) :
                    /\ pre_reservas'[i].estado = "RECHAZADO"
                    /\ pre_reservas'[pack_T(pre_reservas, d, i)].estado = "RECHAZADO"
                    /\ \A k \in SlotKeys :
                          slots'[k].reservado_por = pre_reservas[i].usuario_id
                              => slots[k].reservado_por = pre_reservas[i].usuario_id
                    /\ libres_sorteo(st1.slots, d, "M") = libres_sorteo(slots, d, "M")
                    /\ singles(st1.pre, d, "M") # {}
                          => \E s \in singles(st1.pre, d, "M"), p \in Plazas :
                                /\ pre_reservas'[s].estado = "ASIGNADO"
                                /\ slots'[<<d, p, "M">>].reservado_por
                                      = pre_reservas[s].usuario_id]_vars

\* a pack rejected whole although an AM slot was free: its requester holds
\* no slot of the date, no PM slot is free, and the AM slot went to the AM
\* single of the other requester
EscenarioBHecho ==
    \E i \in 1..Len(pre_reservas), j \in 1..Len(pre_reservas), s \in 1..Len(pre_reservas) :
        LET d == pre_reservas[i].fecha
            x == pre_reservas[i].usuario_id
        IN  /\ pre_reservas[i].franja = "M" /\ pre_reservas[j].franja = "T"
            /\ pre_reservas[i].pack_id # 0
            /\ pre_reservas[j].pack_id = pre_reservas[i].pack_id
            /\ pre_reservas[j].usuario_id = x /\ pre_reservas[j].fecha = d
            /\ pre_reservas[i].estado = "RECHAZADO" /\ pre_reservas[j].estado = "RECHAZADO"
            /\ \A k \in SlotKeys : k[1] = d => slots[k].reservado_por # x
            /\ libres_sorteo(slots, d, "T") = {}
            /\ \A p \in Plazas : ~slots[<<d, p, "T">>].es_sorteo
            /\ pre_reservas[s].fecha = d /\ pre_reservas[s].franja = "M"
            /\ pre_reservas[s].pack_id = 0 /\ pre_reservas[s].usuario_id # x
            /\ pre_reservas[s].estado = "ASIGNADO"
            /\ \E p \in Plazas :
                  /\ slots[<<d, p, "M">>].reservado_por = pre_reservas[s].usuario_id
                  /\ slots[<<d, p, "M">>].es_sorteo

\* C21: the life of a request in the requester's client. A save of
\* view_suplente, in each of its steps, creates rows only as PENDIENTE, sets
\* no row to RECHAZADO, takes a row to ASIGNADO only from PENDIENTE and only
\* when its date is the today of the script run (the direct reservation),
\* and changes a row of a later date only to CANCELADO.
CicloCliente(hoy_run) ==
    /\ Len(pre_reservas') >= Len(pre_reservas)
    /\ \A i \in 1..Len(pre_reservas') :
          IF i > Len(pre_reservas)
          THEN pre_reservas'[i].estado = "PENDIENTE"
          ELSE /\ [pre_reservas'[i] EXCEPT !.estado = "x"] = [pre_reservas[i] EXCEPT !.estado = "x"]
               /\ pre_reservas'[i].estado # pre_reservas[i].estado
                    => /\ pre_reservas'[i].estado # "RECHAZADO"
                       /\ pre_reservas'[i].estado = "ASIGNADO"
                            => /\ pre_reservas[i].estado = "PENDIENTE"
                               /\ pre_reservas[i].fecha = hoy_run
                       /\ pre_reservas[i].fecha > hoy_run
                            => pre_reservas'[i].estado = "CANCELADO"

CancelarDosVeces ==
    \A u \in Users, d \in Dates :
        /\ \A fr \in FranjaSet :
              LET c == cancel_pre(Db, u, d, fr)
              IN  /\ cancel_pre(c, u, d, fr) = c
                  /\ (\A i \in 1..Len(pre_reservas) :
                         /\ pre_reservas[i].usuario_id = u
                         /\ pre_reservas[i].fecha = d
                         /\ pre_reservas[i].franja = fr
                         => pre_reservas[i].estado = "CANCELADO")
                        => c = Db
        /\ LET e == ev_cancelar_solicitud(Db, d, u)
            IN  /\ ev_cancelar_solicitud(e, d, u) = e
                /\ ev_solicitudes[<<d, u>>].estado = "CANCELADO" => e = Db

\* a parking request and an EV request of the same requester, both cancelled
CancelarHecho ==
    \E u \in Users :
        /\ \E i \in 1..Len(pre_reservas) :
              pre_reservas[i].usuario_id = u /\ pre_reservas[i].estado = "CANCELADO"
        /\ \E d \in Dates :
              /\ ev_solicitudes[<<d, u>>].estado = "CANCELADO"
              /\ ev_solicitudes[<<d, u>>].pref_turno # Null

LoginLockout ==
    [][\A e \in Emails, resp \in Respuestas :
          Login(e, resp) =>
            LET sec == login_security[e]
                despues == login_security'[e]
                bloqueado == sec.blocked_until # SinBloqueo /\ ahora_utc < sec.blocked_until
                cuenta == IF sec.blocked_until # SinBloqueo THEN 0 ELSE sec.attempts
            IN  /\ \A o \in Emails \ {e} : login_security'[o] = login_security[o]
                /\ sec.attempts >= 4 => sec.blocked_until # SinBloqueo
                /\ bloqueado
                     => ~consulta'.res /\ ~consulta'.contacto /\ despues = sec
                /\ ~bloqueado => consulta'.contacto
                /\ ~bloqueado /\ resp = "ok"
                     => consulta'.res /\ despues.attempts = 0 /\ despues.blocked_until = SinBloqueo
                /\ ~bloqueado /\ resp = "rechazo"
                     => /\ ~consulta'.res
                        /\ despues.attempts = cuenta + 1
                        /\ despues.blocked_until =
                              IF cuenta + 1 >= 4 THEN ahora_utc + 15 ELSE SinBloqueo
                /\ ~bloqueado /\ resp = "excepcion"
                     => ~consulta'.res /\ despues = sec]_vars

\* the last minute of a block: a login with the right password has just
\* failed without a request to the authentication server
LoginBloqueado ==
    /\ consulta.fn = "login"
    /\ consulta.accion = "ok"
    /\ ~consulta.res
    /\ ~consulta.contacto
    /\ login_security[consulta.email].attempts = 4
    /\ ahora_utc = login_security[consulta.email].blocked_until - 1

\* C26: "Cancelar cesiones futuras" of the titular of a plaza sets owner_usa
\* on the slots of that plaza, from tomorrow on, that are ceded and not
\* reserved when the request is served, and changes nothing else: no slot
\* that is reserved, no slot of today, no slot of another plaza (the click
\* of the titular of a plaza that is not in the table changes no slot).
CancelarCesionesFrame ==
    [][/\ \A p \in Plazas :
             TitularCancelarCesiones(p) =>
                \A k \in SlotKeys :
                    IF /\ k[2] = p
                       /\ k[1] > hoy
                       /\ ~slots[k].owner_usa
                       /\ slots[k].reservado_por = Null
                    THEN slots'[k] = [slots[k] EXCEPT !.owner_usa = TRUE]
                    ELSE slots'[k] = slots[k]
       /\ \A p \in 1..(Max(Plazas) + 1) \ Plazas :
             cancelar_cesiones_futuras(slots, p) = slots]_vars

\* after the click: a ceded slot of tomorrow was reset, and a reserved slot
\* of tomorrow is still ceded and reserved
CancelarCesionesHecho ==
    /\ consulta.fn = "cancelar_cesiones"
    /\ consulta.cambiadas > 0
    /\ \E k \in SlotKeys :
          /\ k[2] = consulta.plaza_id /\ k[1] >= consulta.fecha
          /\ slots[k].reservado_por # Null /\ ~slots[k].owner_usa
    /\ \A k \in SlotKeys :
          k[2] = consulta.plaza_id /\ k[1] >= consulta.fecha /\ slots[k].reservado_por = Null
              => slots[k].owner_usa

\* C27: whatever the saves of a requester, the requester has at most one
\* request row that is not CANCELADO for a date and a period.
OneLiveRequest ==
    \A i \in 1..Len(pre_reservas), j \in 1..Len(pre_reservas) :
        /\ pre_reservas[i].usuario_id = pre_reservas[j].usuario_id
        /\ pre_reservas[i].fecha = pre_reservas[j].fecha
        /\ pre_reservas[i].franja = pre_reservas[j].franja
        /\ pre_reservas[i].estado # "CANCELADO"
        /\ pre_reservas[j].estado # "CANCELADO"
        => i = j

\* C28: an EV request that is ASIGNADO is not taken back to PENDIENTE: no
\* save of the page, with the same EV boxes ticked or others, rewrites the
\* state of a request that is assigned.
EvAssignedStays ==
    [][\A k \in DOMAIN ev_solicitudes :
          ev_solicitudes[k].estado = "ASIGNADO" => ev_solicitudes'[k].estado # "PENDIENTE"]_vars

\* C29: a slot blocked for EV charging (slot_bloqueado_para set) and not
\* reserved is never taken by a direct reservation: it stays unreserved.
BlockedSlotNotCaptured ==
    [][\A k \in SlotKeys :
          slots[k].slot_bloqueado_para # Null /\ slots[k].reservado_por = Null
              => slots'[k].reservado_por = Null]_vars

\* C30: within one session the automatic trigger calls the lottery at most
\* once per calendar day, only for the date hoy + 1, never before 20:00, and
\* only in a page load of a session whose token is not expired and whose
\* profile is loaded; once it has fired, the later page loads of the day
\* that reach the trigger render the view of the role and call nothing.
AutoTriggerInSession ==
    [][/\ \A d \in FechasSorteo :
             llamadas_auto'[d] # llamadas_auto[d]
                => /\ d = hoy + 1
                   /\ llamadas_auto[d] = 0
                   /\ llamadas_auto'[d] = 1
                   /\ ahora >= limite
                   /\ auth["s1"] = "vigente" /\ auth'["s1"] = "vigente"
                   /\ profile'["s1"] = "perfil"
       /\ (/\ llamadas_auto[hoy + 1] >= 1
           /\ auth["s1"] = "vigente"
           /\ consulta' # consulta \/ llamadas_auto' # llamadas_auto
           /\ consulta'.accion # "sin_perfil")
             => /\ consulta'.fn = "main" /\ consulta'.accion = "vista"
                /\ llamadas_auto' = llamadas_auto]_vars

\* the trigger fired on every day up to the last one, and the page load
\* after it, past 20:00 of the last day, rendered the view of the role
AutoTriggerFiredThenView ==
    /\ hoy = MaxDay
    /\ ahora >= limite
    /\ \A d \in 1..(hoy + 1) : llamadas_auto[d] = 1
    /\ last_auto_draw_date["s1"] = hoy
    /\ consulta.fn = "main" /\ consulta.accion = "vista"
    /\ auth["s1"] = "vigente" /\ profile["s1"] = "perfil"

====
